---- MODULE Spec2Model ----
(***************************************************************************)
(* ANTA: device abstraction (anta/device.py), command collection, the     *)
(* evaluation functions of anta/tests and the inventory (anta/inventory).  *)
(*                                                                         *)
(* The state machines of this module:                                      *)
(*   Spec         the AsyncEOSDevice: collect() tasks run by               *)
(*                collect_commands() through asyncio.gather, against an    *)
(*                eAPI transport that answers each request with any        *)
(*                outcome;                                                 *)
(*   SpecTest     one test bound to a device: collection of its commands,  *)
(*                then evaluation, one is_success/is_failure/... call a    *)
(*                step;                                                    *)
(*   SpecRefresh  refresh() and collect() calls on one device;             *)
(*   SpecEq       AsyncEOSDevice.__eq__ applied to devices and objects;    *)
(*   SpecCall     get_failed_logs and copy() applied to their arguments;   *)
(*   SpecLoad     AntaInventory constructed from inventory data, then      *)
(*                device_get;                                              *)
(*   SpecInv      session_create / sessions_create calls on an inventory.  *)
(***************************************************************************)
EXTENDS Integers, Sequences, FiniteSets, TLC

\* ------------------------------------------------------------------ bounds
NumCmds == 2        \* AntaCommand objects handed to the device
MaxRuns == 2        \* collect_commands() calls made on the device
MaxCollects == 2    \* collect() calls made on the device, over all collect_commands()
MaxEvals == 2       \* evaluations of one test instance
MaxRefresh == 2     \* refresh() calls made on the device
AddrBits == 2       \* width of an address: the addresses are 0 .. 2^AddrBits - 1
MaxCalls == 2       \* session_create / sessions_create calls made on an inventory

None == "None"
DEFAULT_TAG == "all"

Cmds == 1..NumCmds

\* Identity of an AntaCommand: (command, ofmt, version, revision).
Idents ==
    { [command |-> "show version", ofmt |-> "json", version |-> "latest", revision |-> 0],
      [command |-> "show ip route summary", ofmt |-> "json", version |-> "latest", revision |-> 3] }

\* Structured outputs the device may return for a command.
Payloads == {"out1", "out2"}

\* What tags argument the constructor is given (None: omitted).
TagInputs == { <<None>>, <<>>, <<"leaf">>, <<"all">>, <<"leaf", "all">> }

VARIABLES
    device,     \* the AsyncEOSDevice: name, tags, is_online, established, hw_model, ...
    command,    \* command[c]: the AntaCommand object c: its identity, output, failed
    task,       \* task[c]: position of the collect(command=c) coroutine
    gather,     \* the running collect_commands(): its state and its commands
    issued,     \* issued[i]: requests for identity i sent by the current collect_commands()
    answered,   \* the last collect() completed: its command and the transport's outcome
    collects,   \* number of collect() calls made
    runs,       \* number of collect_commands() calls made
    tname,      \* the test evaluated
    tdata,      \* its inputs and the structured output its commands return
    tfailed,    \* TRUE when collection left a failure on one of the test's commands
    tpc,        \* position in the test lifecycle
    pending,    \* calls on self.result the evaluation function still makes
    traise,     \* TRUE when the evaluation function raises after them
    result,     \* the TestResult: result and messages
    nFail,      \* is_failure calls made by the evaluation function
    nSucc,      \* is_success calls made by the evaluation function
    ownError,   \* TRUE when the evaluation function itself called is_error
    evals,      \* number of evaluations completed
    first,      \* the Result of the first evaluation
    rpos,       \* position of the refresh() coroutine
    refreshed,  \* the last refresh(): its probe, the outcome of its command, how it ended
    refreshes,  \* number of refresh() calls made
    call,       \* a function applied on its own: its name and arguments
    ret,        \* what it returned
    idata,      \* the arguments an AntaInventory is constructed with
    inventory,  \* the AntaInventory: its construction, its devices, the Server objects made
    ilast,      \* the last call on the inventory and what it returned
    icalls      \* number of session_create / sessions_create calls made

varsDev == <<device, command, task, gather, issued, answered, collects, runs>>
varsTest == <<tname, tdata, tfailed, tpc, pending, traise, result, nFail, nSucc, ownError, evals, first>>
varsAux == <<rpos, refreshed, refreshes, call, ret>>
varsInv == <<idata, inventory, ilast, icalls>>
vars == <<varsDev, varsTest, varsAux, varsInv>>

\* ------------------------------------------------------------------ helpers
Range(s) == { s[i] : i \in DOMAIN s }

\* ------------------------------------------------------------------ AntaDevice

\* AntaDevice.__init__ appending 'all' whatever the tags given.
AntaDeviceTagsAlwaysAppend(tags) ==
    Append(IF tags = <<None>> THEN <<>> ELSE tags, DEFAULT_TAG)

\* AntaDevice.__init__: tags default to [], and 'all' is appended when absent.
AntaDeviceTags(tags) ==
    LET given == IF tags = <<None>> THEN <<>> ELSE tags
    IN  IF DEFAULT_TAG \in Range(given) THEN given ELSE Append(given, DEFAULT_TAG)

\* AsyncEOSDevice.__init__ (with AntaDevice.__init__).
AsyncEOSDeviceInit(host, port, enable_password, tags) ==
    [ name |-> <<host, port>>,
      hw_model |-> None,
      tags |-> AntaDeviceTags(tags),
      is_online |-> FALSE,
      established |-> FALSE,
      enable_password |-> enable_password,
      host |-> host,
      port |-> port ]

\* A command as rendered, before any collection.
NewCommand(ident) == [ident |-> ident, output |-> None, failed |-> None]

\* ------------------------------------------------------------------ transport

\* Outcomes of self._session.cli(commands=[enable, command], ...).
\* index: which entry of the batch the eAPI reported as failing (0: enable).
Outcomes ==
    { [kind |-> "ok", index |-> 0, payload |-> p] : p \in Payloads }
    \cup { [kind |-> "EapiCommandError", index |-> i, payload |-> None] : i \in {0, 1} }
    \cup { [kind |-> k, index |-> 0, payload |-> None] : k \in {"HTTPError", "ConnectError", "Exception"} }

\* Outcomes of the transport a collection is run against where the
\* requests are not followed one by one.
TestOutcomes ==
    { o \in Outcomes :
        \/ o.kind = "ok" /\ o.payload = "out1"
        \/ o.kind = "EapiCommandError" /\ o.index = 1
        \/ o.kind = "ConnectError" }

\* The identity of command c when each command has its own.
IdentOf(c) == CHOOSE i \in Idents : (i.revision = 0) <=> (c = 1)

\* The exception object of a failed outcome.
ExcOf(o) ==
    IF o.kind = "EapiCommandError"
    THEN (IF o.index = 0 THEN "EapiCommandError(enable)" ELSE "EapiCommandError(command)")
    ELSE o.kind

\* The response of a successful batch: one entry per command of the batch.
ResponseOf(o) == <<"enable_done", o.payload>>

\* collect(): the batch built from the enable password and the command.
BuildRequest(dev, cmd) ==
    [ commands |->
        << (IF dev.enable_password # None
            THEN [cmd |-> "enable", input |-> dev.enable_password, revision |-> 0]
            ELSE [cmd |-> "enable", input |-> None, revision |-> 0]),
           (IF cmd.ident.revision # 0
            THEN [cmd |-> cmd.ident.command, input |-> None, revision |-> cmd.ident.revision]
            ELSE [cmd |-> cmd.ident.command, input |-> None, revision |-> 0]) >>,
      ofmt |-> cmd.ident.ofmt,
      version |-> cmd.ident.version ]

\* The identity of the command a request asks for.
RequestIdent(r) ==
    [ command |-> r.commands[2].cmd, ofmt |-> r.ofmt,
      version |-> r.version, revision |-> r.commands[2].revision ]

\* collect(), lines 273-283, with the broad clause missing.
ExceptClauseNoBroad(kind) ==
    CASE kind = "EapiCommandError" -> "EapiCommandError"
      [] kind \in {"HTTPError", "ConnectError"} -> "HTTPError"
      [] OTHER -> "uncaught"

\* collect(), lines 273-283: the except clause that catches an exception.
ExceptClause(kind) ==
    CASE kind = "EapiCommandError" -> "EapiCommandError"
      [] kind \in {"HTTPError", "ConnectError"} -> "HTTPError"
      [] OTHER -> "Exception"

\* collect(): the command after the transport answered, and whether collect raised.
CollectOutcome(cmd, o) ==
    IF o.kind = "ok"
    THEN LET response == ResponseOf(o)
             selected == IF cmd.ident.ofmt \in {"json", "text"} THEN response[2] ELSE response
         IN  [cmd |-> [cmd EXCEPT !.output = selected], raised |-> FALSE]
    ELSE IF ExceptClause(o.kind) = "uncaught"
         THEN [cmd |-> cmd, raised |-> TRUE]
         ELSE [cmd |-> [cmd EXCEPT !.failed = ExcOf(o)], raised |-> FALSE]

\* collect() that marks the device offline when the connection fails.
CollectDeviceOffline(dev, o) ==
    IF o.kind = "ConnectError" THEN [dev EXCEPT !.is_online = FALSE, !.established = FALSE] ELSE dev

\* collect(), lines 234-283: the device after the call; no attribute of self is assigned.
CollectDevice(dev, o) == dev

\* asyncio.gather returning on the first finished task.
GatherReadyAny(cs) == \E c \in cs : task[c] = "done"

\* collect_commands(): asyncio.gather returns once every task has finished.
GatherReady(cs) == \A c \in cs : task[c] = "done"

\* asyncio.gather propagates the first exception raised by a task.
GatherRaises(cs) == \E c \in cs : task[c] = "raised"

\* ------------------------------------------------------------------ TestResult

NoMsg == <<>>

\* One call of the evaluation function on its result object.
Call(op, msg) == [op |-> op, msg |-> msg]

\* The evaluation function returns after these calls / raises after them /
\* raises because its own command request (device.session.runCmds) failed.
Return(cs) == [calls |-> cs, raise |-> FALSE, rpc |-> FALSE]
Raise(cs) == [calls |-> cs, raise |-> TRUE, rpc |-> FALSE]
RpcRaise(cs) == [calls |-> cs, raise |-> TRUE, rpc |-> TRUE]

Unset == [result |-> "unset", messages |-> <<>>]

\* A message is accumulated when the call gives one.
AddMsg(res, msg) == IF msg = NoMsg THEN res.messages ELSE Append(res.messages, msg)

\* is_failure that leaves an already reported success in place.
IsFailureKeepsFirst(res, msg) ==
    [result |-> IF res.result = "success" THEN "success" ELSE "failure",
     messages |-> AddMsg(res, msg)]

\* TestResult.is_failure(message): failure, messages accumulate.
IsFailure(res, msg) == [result |-> "failure", messages |-> AddMsg(res, msg)]

\* TestResult.is_success(): success, unless a failure was reported (failure is sticky).
IsSuccess(res, msg) ==
    [result |-> IF res.result = "failure" THEN "failure" ELSE "success",
     messages |-> AddMsg(res, msg)]

\* TestResult.is_skipped(message).
IsSkipped(res, msg) == [result |-> "skipped", messages |-> AddMsg(res, msg)]

\* TestResult.is_error(message).
IsError(res, msg) == [result |-> "error", messages |-> AddMsg(res, msg)]

\* The call c made on the result res.
Apply(res, c) ==
    CASE c.op = "is_success" -> IsSuccess(res, c.msg)
      [] c.op = "is_failure" -> IsFailure(res, c.msg)
      [] c.op = "is_skipped" -> IsSkipped(res, c.msg)
      [] c.op = "is_error" -> IsError(res, c.msg)

\* ------------------------------------------------------------------ routing/generic.py

Models == {"", "multi-agent", "ribd"}
ProtoModels == {"multi-agent", "ribd"}

\* Inputs and device answers of verify_routing_protocol_model.
Data_verify_routing_protocol_model ==
    { [model |-> m, rpc |-> "raise"] : m \in Models }
    \cup { [model |-> m, rpc |-> "ok", wellformed |-> FALSE] : m \in Models }
    \cup { [model |-> m, rpc |-> "ok", wellformed |-> TRUE,
            protoModelStatus |-> [configuredProtoModel |-> c, operatingProtoModel |-> o]] :
             m \in Models, c \in ProtoModels, o \in ProtoModels }

\* verify_routing_protocol_model reporting a failed request as a failure itself.
verify_routing_protocol_model_catches(d) ==
    IF d.model = ""
    THEN Return(<<Call("is_skipped", <<"verify_routing_protocol_model was not run as no model was given">>)>>)
    ELSE IF d.rpc = "raise"
    THEN [calls |-> <<Call("is_failure", <<"routing model could not be read">>)>>,
          raise |-> FALSE, rpc |-> TRUE]
    ELSE IF ~d.wellformed
    THEN Raise(<<>>)
    ELSE LET configured_model == d.protoModelStatus.configuredProtoModel
             operating_model == d.protoModelStatus.operatingProtoModel
         IN  IF configured_model = operating_model /\ operating_model = d.model
             THEN Return(<<Call("is_success", NoMsg)>>)
             ELSE Return(<<Call("is_failure", <<"routing model is misconfigured",
                                                configured_model, operating_model, d.model>>)>>)

\* verify_routing_protocol_model(device, result, model).
verify_routing_protocol_model(d) ==
    IF d.model = ""
    THEN Return(<<Call("is_skipped", <<"verify_routing_protocol_model was not run as no model was given">>)>>)
    ELSE IF d.rpc = "raise"
    THEN RpcRaise(<<>>)
    ELSE IF ~d.wellformed
    THEN Raise(<<>>)
    ELSE LET configured_model == d.protoModelStatus.configuredProtoModel
             operating_model == d.protoModelStatus.operatingProtoModel
         IN  IF configured_model = operating_model /\ operating_model = d.model
             THEN Return(<<Call("is_success", NoMsg)>>)
             ELSE Return(<<Call("is_failure", <<"routing model is misconfigured",
                                                configured_model, operating_model, d.model>>)>>)

\* A threshold of verify_routing_table_size: given or missing (None), and its value.
Thresholds == { [given |-> FALSE, value |-> 0] } \cup { [given |-> TRUE, value |-> v] : v \in {0, 1, 2} }
TotalRoutes == 0 .. 3

\* Inputs and device answers of verify_routing_table_size.
Data_verify_routing_table_size ==
    { [minimum |-> mn, maximum |-> mx, rpc |-> "raise"] : mn \in Thresholds, mx \in Thresholds }
    \cup { [minimum |-> mn, maximum |-> mx, rpc |-> "ok", wellformed |-> FALSE] :
             mn \in Thresholds, mx \in Thresholds }
    \cup { [minimum |-> mn, maximum |-> mx, rpc |-> "ok", wellformed |-> TRUE, totalRoutes |-> t] :
             mn \in Thresholds, mx \in Thresholds, t \in TotalRoutes }

\* not x, for a threshold that is an int or None: true of None and of 0.
Not(x) == ~x.given \/ x.value = 0

\* verify_routing_table_size(device, result, minimum, maximum).
verify_routing_table_size(d) ==
    IF Not(d.minimum) \/ Not(d.maximum)
    THEN Return(<<Call("is_skipped",
                       <<"verify_routing_table_size was not run as no minimum or maximum were given">>)>>)
    ELSE IF d.rpc = "raise" THEN RpcRaise(<<>>)
    ELSE IF ~d.wellformed THEN Raise(<<>>)
    ELSE LET total_routes == d.totalRoutes
         IN  IF d.minimum.value <= total_routes /\ total_routes <= d.maximum.value
             THEN Return(<<Call("is_success", NoMsg)>>)
             ELSE Return(<<Call("is_failure", <<"routing-table has routes and not between min and maximum",
                                                total_routes, d.minimum.value, d.maximum.value>>)>>)

\* BFD peers of the answer, in the order the loops visit them.
BfdPeers == { [interface |-> i, status |-> st] : i \in {"Ethernet1"}, st \in {"up", "down"} }
BfdLists == {<<>>} \cup { <<a>> : a \in BfdPeers } \cup { <<a, b>> : a \in BfdPeers, b \in BfdPeers }

Data_verify_bfd ==
    { [rpc |-> "raise"], [rpc |-> "ok", wellformed |-> FALSE] }
    \cup { [rpc |-> "ok", wellformed |-> TRUE, peers |-> l] : l \in BfdLists }

\* verify_bfd, lines 117-137: one is_failure per peer whose status is not up.
RECURSIVE BfdFailures(_)
BfdFailures(peers) ==
    IF peers = <<>> THEN <<>>
    ELSE (IF Head(peers).status # "up"
          THEN <<Call("is_failure", <<"bfd state on interface", Head(peers), Head(peers).status>>)>>
          ELSE <<>>) \o BfdFailures(Tail(peers))

\* verify_bfd without its closing is_success.
verify_bfd_no_success(d) ==
    IF d.rpc = "raise" THEN RpcRaise(<<>>)
    ELSE IF ~d.wellformed THEN Raise(<<>>)
    ELSE Return(BfdFailures(d.peers))

\* verify_bfd(device, result).
verify_bfd(d) ==
    IF d.rpc = "raise" THEN RpcRaise(<<>>)
    ELSE IF ~d.wellformed THEN Raise(<<>>)
    ELSE LET failures == BfdFailures(d.peers)
             has_failed == failures # <<>>
         IN  Return(failures \o (IF has_failed = FALSE THEN <<Call("is_success", NoMsg)>> ELSE <<>>))

\* ------------------------------------------------------------------ routing/bgp.py

PeerNames == {"10.1.0.1", "10.1.0.2"}
VrfNames == {"default", "PROD"}

Established == [peerState |-> "Established", inMsgQueue |-> 0, outMsgQueue |-> 0]
PeerEntries ==
    { Established,
      [peerState |-> "Idle", inMsgQueue |-> 0, outMsgQueue |-> 0],
      [peerState |-> "Established", inMsgQueue |-> 1, outMsgQueue |-> 0],
      [peerState |-> "Established", inMsgQueue |-> 0, outMsgQueue |-> 1] }

\* The "peers" dictionaries of an answer: peer name -> peer entry.
PeerDicts == UNION { [ps -> PeerEntries] : ps \in SUBSET PeerNames }

\* A few of them, for the tests that take several answers.
FewPeerDicts ==
    { p \in PeerDicts : \A n \in DOMAIN p : p[n].inMsgQueue = 0 /\ p[n].outMsgQueue = 0 }

\* The "vrfs" dictionaries of an answer: vrf name -> [peers |-> ...].
VrfDicts == UNION { [vs -> { [peers |-> p] : p \in PeerDicts }] : vs \in SUBSET VrfNames }

\* The condition of lines 37-41 looking at the peer state alone.
PeerHasIssueStateOnly(e) == e.peerState # "Established"

\* The condition of lines 37-41 on one peer entry.
PeerHasIssue(e) ==
    (e.peerState # "Established") \/ (e.inMsgQueue # 0) \/ (e.outMsgQueue # 0)

\* _check_bgp_vrfs(bgp_vrfs): vrf -> peer -> entry, for the peers with an issue.
_check_bgp_vrfs(bgp_vrfs) ==
    LET bad(v) == { p \in DOMAIN bgp_vrfs[v].peers : PeerHasIssue(bgp_vrfs[v].peers[p]) }
    IN  [v \in { w \in DOMAIN bgp_vrfs : bad(w) # {} } |->
            [p \in bad(v) |->
                [peerState |-> bgp_vrfs[v].peers[p].peerState,
                 inMsgQueue |-> bgp_vrfs[v].peers[p].inMsgQueue,
                 outMsgQueue |-> bgp_vrfs[v].peers[p].outMsgQueue]]]

\* An empty dictionary.
EmptyDict == [x \in {} |-> x]

Data_VerifyBGPIPv4UnicastState ==
    { [gate |-> FALSE] }
    \cup { [gate |-> TRUE, wellformed |-> FALSE] }
    \cup { [gate |-> TRUE, wellformed |-> TRUE, vrfs |-> v] : v \in VrfDicts }

\* VerifyBGPIPv4UnicastState.test.
VerifyBGPIPv4UnicastState(d) ==
    IF ~d.wellformed THEN Raise(<<>>)
    ELSE LET state_issue == _check_bgp_vrfs(d.vrfs)
         IN  IF DOMAIN state_issue = {}
             THEN Return(<<Call("is_success", NoMsg)>>)
             ELSE Return(<<Call("is_failure", <<"Some IPv4 Unicast BGP Peer are not up", state_issue>>)>>)

\* One rendered command of VerifyBGPIPv4UnicastCount: its vrf parameter, the
\* expected count of inputs.vrfs, and the "vrfs" dictionary of its answer
\* (wellformed is false when the answer has no such key).
CountCommands ==
    { [vrf |-> v, count |-> n, wellformed |-> TRUE, vrfs |-> EmptyDict] : v \in {"default"}, n \in {1, 2} }
    \cup { [vrf |-> v, count |-> n, wellformed |-> FALSE] : v \in {"default"}, n \in {1} }
    \cup { [vrf |-> v, count |-> n, wellformed |-> TRUE, vrfs |-> [w \in {v} |-> [peers |-> p]]] :
             v \in {"default"}, n \in {1, 2}, p \in FewPeerDicts }
CountCommands2 ==
    { [vrf |-> v, count |-> n, wellformed |-> TRUE, vrfs |-> EmptyDict] : v \in {"PROD"}, n \in {1} }
    \cup { [vrf |-> v, count |-> n, wellformed |-> FALSE] : v \in {"PROD"}, n \in {1} }
    \cup { [vrf |-> v, count |-> n, wellformed |-> TRUE, vrfs |-> [w \in {v} |-> [peers |-> p]]] :
             v \in {"PROD"}, n \in {1}, p \in FewPeerDicts }

Data_VerifyBGPIPv4UnicastCount ==
    { [gate |-> FALSE] }
    \cup { [gate |-> TRUE, commands |-> <<a>>] : a \in CountCommands }
    \cup { [gate |-> TRUE, commands |-> <<a, b>>] : a \in CountCommands, b \in CountCommands2 }

\* Lines 116-128: the loop over instance_commands, from the given commands on.
RECURSIVE CountLoop(_)
CountLoop(cmds) ==
    IF cmds = <<>> THEN Return(<<>>)
    ELSE LET c == Head(cmds)
         IN  IF ~c.wellformed THEN Raise(<<>>)
             ELSE IF c.vrf \notin DOMAIN c.vrfs
             THEN Return(<<Call("is_failure", <<"VRF is not configured", c.vrf>>)>>)
             ELSE LET peers == c.vrfs[c.vrf].peers
                      state_issue == _check_bgp_vrfs(c.vrfs)
                      here ==
                          (IF Cardinality(DOMAIN peers) # c.count
                           THEN <<Call("is_failure", <<"Expecting BGP peer(s) in vrf but got",
                                                       c.count, c.vrf, Cardinality(DOMAIN peers)>>)>>
                           ELSE <<>>)
                          \o (IF DOMAIN state_issue # {}
                              THEN <<Call("is_failure", <<"The following IPv4 peer(s) are not established",
                                                          state_issue>>)>>
                              ELSE <<>>)
                      rest == CountLoop(Tail(cmds))
                  IN  [calls |-> here \o rest.calls, raise |-> rest.raise, rpc |-> rest.rpc]

\* VerifyBGPIPv4UnicastCount.test.
VerifyBGPIPv4UnicastCount(d) ==
    LET rest == CountLoop(d.commands)
    IN  [calls |-> <<Call("is_success", NoMsg)>> \o rest.calls, raise |-> rest.raise, rpc |-> rest.rpc]

Numbers == {0, 1, 2}

\* Inputs and answers of VerifyBGPEVPNCount and VerifyBGPRTCCount.
Data_PeerCount ==
    { [gate |-> FALSE] }
    \cup { [gate |-> TRUE, wellformed |-> FALSE, number |-> n] : n \in {1} }
    \cup { [gate |-> TRUE, wellformed |-> TRUE, number |-> n, peers |-> p] :
             n \in Numbers, p \in PeerDicts }

\* Lines 207-217 and 269-279, which differ in the family named by the messages.
PeerCount(family, d) ==
    IF ~d.wellformed THEN Raise(<<>>)
    ELSE LET peers == d.peers
             non_established_peers == { p \in DOMAIN peers : peers[p].peerState # "Established" }
         IN  IF non_established_peers = {} /\ Cardinality(DOMAIN peers) = d.number
             THEN Return(<<Call("is_success", NoMsg)>>)
             ELSE Return(
                    <<Call("is_failure", NoMsg)>>
                    \o (IF Cardinality(DOMAIN peers) # d.number
                        THEN <<Call("is_failure", <<"Expecting BGP peers and got", family,
                                                    d.number, Cardinality(DOMAIN peers)>>)>>
                        ELSE <<>>)
                    \o (IF non_established_peers # {}
                        THEN <<Call("is_failure", <<"The following peers are not established", family,
                                                    non_established_peers>>)>>
                        ELSE <<>>))

\* VerifyBGPEVPNCount.test.
VerifyBGPEVPNCount(d) == PeerCount("EVPN", d)

\* VerifyBGPRTCCount.test.
VerifyBGPRTCCount(d) == PeerCount("RTC", d)

\* ------------------------------------------------------------------ tools/utils.py

\* get_failed_logs(expected_output, actual_output): one line per element of
\* expected_output (visited in the order keys) whose actual value differs;
\* actual_output.get(element) is None for an element that is absent.
RECURSIVE get_failed_logs(_, _, _)
get_failed_logs(keys, expected_output, actual_output) ==
    IF keys = <<>> THEN <<>>
    ELSE LET element == Head(keys)
             expected_data == expected_output[element]
             actual_data == IF element \in DOMAIN actual_output THEN actual_output[element] ELSE None
             rest == get_failed_logs(Tail(keys), expected_output, actual_output)
         IN  IF actual_data = expected_data THEN rest
             ELSE IF actual_data = None
             THEN <<<<"Expected, but it was not found in the actual output", expected_data, element>>>> \o rest
             ELSE <<<<"Expected, but found instead", expected_data, element, actual_data>>>> \o rest

\* ------------------------------------------------------------------ security.py

\* One entry of ipAclList.aclList.
SshAcls ==
    { [name |-> "ACL_IPV4", configuredVrfs |-> c, activeVrfs |-> a] :
        c \in {{"default"}, {"MGMT"}}, a \in {{"default"}, {}} }
SshAclLists == {<<>>} \cup { <<a>> : a \in SshAcls } \cup { <<a, b>> : a \in SshAcls, b \in SshAcls }

Data_VerifySSHIPv4Acl ==
    { [wellformed |-> FALSE, number |-> n, vrf |-> "default"] : n \in {1} }
    \cup { [wellformed |-> TRUE, number |-> n, vrf |-> "default", aclList |-> l] :
             n \in Numbers, l \in SshAclLists }

\* VerifySSHIPv4Acl.test.
VerifySSHIPv4Acl(d) ==
    IF ~d.wellformed THEN Raise(<<>>)
    ELSE LET ipv4_acl_list == d.aclList
             ipv4_acl_number == Len(ipv4_acl_list)
             not_configured_acl_list ==
                 SelectSeq(ipv4_acl_list,
                           LAMBDA acl : d.vrf \notin acl.configuredVrfs \/ d.vrf \notin acl.activeVrfs)
         IN  IF ipv4_acl_number # d.number
             THEN Return(<<Call("is_failure", <<"Expected SSH IPv4 ACL(s) in vrf but got",
                                                d.number, d.vrf, ipv4_acl_number>>)>>)
             ELSE IF not_configured_acl_list # <<>>
             THEN Return(<<Call("is_failure", <<"SSH IPv4 ACL(s) not configured or active in vrf", d.vrf,
                                                [k \in DOMAIN not_configured_acl_list |->
                                                    not_configured_acl_list[k].name]>>)>>)
             ELSE Return(<<Call("is_success", NoMsg)>>)

\* The sslProfile of the answer; None stands for a key that is absent.
\* What "show management api http-commands" answers.
Data_VerifyAPIHttpStatus ==
    { [wellformed |-> FALSE] }
    \cup { [wellformed |-> TRUE, enabled |-> e, httpServer |-> [running |-> r]] :
             e \in BOOLEAN, r \in BOOLEAN }

\* VerifyAPIHttpStatus.test.
VerifyAPIHttpStatus(d) ==
    IF ~d.wellformed THEN Raise(<<>>)
    ELSE LET command_output == d
         IN  IF command_output.enabled /\ ~command_output.httpServer.running
             THEN Return(<<Call("is_success", NoMsg)>>)
             ELSE Return(<<Call("is_failure", <<"eAPI HTTP server is enabled globally">>)>>)

Data_VerifyAPIHttpsSSL ==
    { [profile |-> "default", hasSslProfile |-> FALSE] }
    \cup { [profile |-> "default", hasSslProfile |-> TRUE, name |-> n, state |-> st] :
             n \in {None, "default", "other"}, st \in {None, "valid", "invalid"} }

\* The lookups of line 195 that raise KeyError.
HttpsSSLKeyError(d) ==
    \/ ~d.hasSslProfile
    \/ d.name = None
    \/ d.name = d.profile /\ d.state = None

\* VerifyAPIHttpsSSL.test reporting a missing key as an error of its own.
VerifyAPIHttpsSSL_is_error(d) ==
    IF HttpsSSLKeyError(d)
    THEN Return(<<Call("is_error", <<"eAPI HTTPS server SSL profile is not configured", d.profile>>)>>)
    ELSE IF d.name = d.profile /\ d.state = "valid"
    THEN Return(<<Call("is_success", NoMsg)>>)
    ELSE Return(<<Call("is_failure", <<"eAPI HTTPS server SSL profile is misconfigured or invalid", d.profile>>)>>)

\* VerifyAPIHttpsSSL.test.
VerifyAPIHttpsSSL(d) ==
    IF HttpsSSLKeyError(d)
    THEN Return(<<Call("is_failure", <<"eAPI HTTPS server SSL profile is not configured", d.profile>>)>>)
    ELSE IF d.name = d.profile /\ d.state = "valid"
    THEN Return(<<Call("is_success", NoMsg)>>)
    ELSE Return(<<Call("is_failure", <<"eAPI HTTPS server SSL profile is misconfigured or invalid", d.profile>>)>>)

SecondsPerDay == 24 * 60 * 60

\* The device clock of "show clock" (utcTime), in seconds.
UtcTime == 1700000000

\* timedelta.days of the difference of two timestamps: whole days, rounded down.
Days(expiry_time, current_timestamp) == (expiry_time - current_timestamp) \div SecondsPerDay

keys_to_verify == <<"subject.commonName", "publicKey.encryptionAlgorithm", "publicKey.size">>

\* The details of a certificate: the values get_value finds under keys_to_verify.
Details(cn, alg, size) ==
    [k \in Range(keys_to_verify) |->
        CASE k = "subject.commonName" -> cn
          [] k = "publicKey.encryptionAlgorithm" -> alg
          [] k = "publicKey.size" -> size]

\* One certificate of the test inputs.
CertInput(name) ==
    [certificate_name |-> name, expiry_threshold |-> 2, common_name |-> "eos.example",
     encryption_algorithm |-> "RSA", key_size |-> "4096"]

NotAfters ==
    { UtcTime - 1, UtcTime, UtcTime + SecondsPerDay - 1, UtcTime + SecondsPerDay,
      UtcTime + 2 * SecondsPerDay, UtcTime + 3 * SecondsPerDay }

\* What "show management security ssl certificate" holds for one certificate.
CertAnswers ==
    { [configured |-> FALSE], [configured |-> TRUE, hasNotAfter |-> FALSE] }
    \cup { [configured |-> TRUE, hasNotAfter |-> TRUE, notAfter |-> t, details |-> dt] :
             t \in NotAfters,
             dt \in { Details("eos.example", "RSA", "4096"),
                      Details("other.example", "RSA", "4096"),
                      Details("eos.example", "RSA", None) } }
FewCertAnswers ==
    { [configured |-> FALSE], [configured |-> TRUE, hasNotAfter |-> FALSE],
      [configured |-> TRUE, hasNotAfter |-> TRUE, notAfter |-> UtcTime - 1,
       details |-> Details("eos.example", "RSA", "4096")],
      [configured |-> TRUE, hasNotAfter |-> TRUE, notAfter |-> UtcTime + 3 * SecondsPerDay,
       details |-> Details("eos.example", "RSA", "4096")] }

\* certificates pairs each input certificate with what the device holds for it.
Data_VerifyAPISSLCertificate ==
    { [hasUtcTime |-> FALSE] }
    \cup { [hasUtcTime |-> TRUE, utcTime |-> UtcTime,
            certificates |-> <<[input |-> CertInput("ARISTA_SIGNING_CA.crt"), data |-> a]>>] :
             a \in CertAnswers }
    \cup { [hasUtcTime |-> TRUE, utcTime |-> UtcTime,
            certificates |-> <<[input |-> CertInput("ARISTA_SIGNING_CA.crt"), data |-> a],
                               [input |-> CertInput("ARISTA_ROOT_CA.crt"), data |-> b]>>] :
             a \in CertAnswers, b \in FewCertAnswers }

\* Lines 352-381: the loop over inputs.certificates, from the given ones on.
RECURSIVE CertLoop(_, _)
CertLoop(certs, current_timestamp) ==
    IF certs = <<>> THEN Return(<<>>)
    ELSE LET certificate == Head(certs).input
             certificate_data == Head(certs).data
             rest == CertLoop(Tail(certs), current_timestamp)
         IN  IF ~certificate_data.configured
             THEN [calls |-> <<Call("is_failure", <<"SSL certificate is not configured",
                                                    certificate.certificate_name>>)>> \o rest.calls,
                   raise |-> rest.raise, rpc |-> rest.rpc]
             ELSE IF ~certificate_data.hasNotAfter THEN Raise(<<>>)
             ELSE LET day_difference == Days(certificate_data.notAfter, current_timestamp)
                      expected_certificate_details ==
                          Details(certificate.common_name, certificate.encryption_algorithm,
                                  certificate.key_size)
                      actual_certificate_details == certificate_data.details
                      here ==
                          (IF 0 < day_difference /\ day_difference < certificate.expiry_threshold
                           THEN <<Call("is_failure", <<"SSL certificate is about to expire in days",
                                                       certificate.certificate_name, day_difference>>)>>
                           ELSE IF day_difference < 0
                           THEN <<Call("is_failure", <<"SSL certificate is expired",
                                                       certificate.certificate_name>>)>>
                           ELSE <<>>)
                          \o (IF actual_certificate_details # expected_certificate_details
                              THEN <<Call("is_failure", <<"SSL certificate is not configured properly",
                                                          certificate.certificate_name,
                                                          get_failed_logs(keys_to_verify,
                                                                          expected_certificate_details,
                                                                          actual_certificate_details)>>)>>
                              ELSE <<>>)
                  IN  [calls |-> here \o rest.calls, raise |-> rest.raise, rpc |-> rest.rpc]

\* VerifyAPISSLCertificate.test.
VerifyAPISSLCertificate(d) ==
    IF ~d.hasUtcTime THEN Raise(<<Call("is_success", NoMsg)>>)
    ELSE LET rest == CertLoop(d.certificates, d.utcTime)
         IN  [calls |-> <<Call("is_success", NoMsg)>> \o rest.calls, raise |-> rest.raise, rpc |-> rest.rpc]

\* Entries of an access list: the expected ones carry an action, those the
\* device lists carry a text.
Permit10 == "permit icmp any any"
Permit20 == "permit ip any any tracked"
AclInputs ==
    { <<[sequence |-> 10, action |-> Permit10]>>,
      <<[sequence |-> 10, action |-> Permit10], [sequence |-> 20, action |-> Permit20]>> }
AclSequences ==
    { <<>>,
      <<[sequenceNumber |-> 10, text |-> Permit10]>>,
      <<[sequenceNumber |-> 10, text |-> "deny icmp any any"]>>,
      <<[sequenceNumber |-> 20, text |-> Permit20]>>,
      <<[sequenceNumber |-> 10, text |-> Permit10], [sequenceNumber |-> 20, text |-> Permit20]>>,
      <<[sequenceNumber |-> 10, text |-> Permit10], [sequenceNumber |-> 20, text |-> "deny ip any any"]>> }

\* One rendered command of VerifyIPv4ACL: its parameters and the aclList of its answer.
AclCommands(name) ==
    { [acl |-> name, entries |-> e, wellformed |-> FALSE] : e \in {<<[sequence |-> 10, action |-> Permit10]>>} }
    \cup { [acl |-> name, entries |-> e, wellformed |-> TRUE, aclList |-> <<>>] : e \in AclInputs }
    \cup { [acl |-> name, entries |-> e, wellformed |-> TRUE, aclList |-> <<[sequence |-> q]>>] :
             e \in AclInputs, q \in AclSequences }

Data_VerifyIPv4ACL ==
    { [commands |-> <<a>>] : a \in AclCommands("LabTest") }
    \cup { [commands |-> <<a, b>>] :
             a \in AclCommands("LabTest"),
             b \in { c \in AclCommands("default-control-plane-acl") : Len(c.entries) = 1 } }

\* get_item(list, "sequenceNumber", value): the first item with that value, in a
\* sequence of at most one item; empty when there is none.
get_item(list, value) ==
    LET found == SelectSeq(list, LAMBDA item : item.sequenceNumber = value)
    IN  IF found = <<>> THEN <<>> ELSE <<Head(found)>>

\* Lines 504-512: the lines added to failed_log for the given expected entries.
RECURSIVE AclEntryLog(_, _)
AclEntryLog(acl_entries, sequence) ==
    IF acl_entries = <<>> THEN <<>>
    ELSE LET acl_seq == Head(acl_entries).sequence
             acl_action == Head(acl_entries).action
             actual_entry == get_item(sequence, acl_seq)
             rest == AclEntryLog(Tail(acl_entries), sequence)
         IN  IF actual_entry = <<>>
             THEN <<<<"Sequence number is not found", acl_seq>>>> \o rest
             ELSE IF actual_entry[1].text # acl_action
             THEN <<<<"Expected as sequence number action but found instead",
                      acl_action, acl_seq, actual_entry[1].text>>>> \o rest
             ELSE rest

\* Lines 491-515: the loop over instance_commands, from the given commands on.
RECURSIVE AclLoop(_)
AclLoop(cmds) ==
    IF cmds = <<>> THEN Return(<<>>)
    ELSE LET command_output == Head(cmds)
             rest == AclLoop(Tail(cmds))
         IN  IF ~command_output.wellformed THEN Raise(<<>>)
             ELSE LET ipv4_acl_list == command_output.aclList
                      failed_log == AclEntryLog(command_output.entries, ipv4_acl_list[1].sequence)
                      here ==
                          IF ipv4_acl_list = <<>>
                          THEN <<Call("is_failure", <<"Not found", command_output.acl>>)>>
                          ELSE IF failed_log # <<>>
                          THEN <<Call("is_failure", <<"acl", command_output.acl, failed_log>>)>>
                          ELSE <<>>
                  IN  [calls |-> here \o rest.calls, raise |-> rest.raise, rpc |-> rest.rpc]

\* VerifyIPv4ACL.test.
VerifyIPv4ACL(d) ==
    LET rest == AclLoop(d.commands)
    IN  [calls |-> <<Call("is_success", NoMsg)>> \o rest.calls, raise |-> rest.raise, rpc |-> rest.rpc]

\* ------------------------------------------------------------------ tests/units/anta_tests/test_mlag.py

\* The answers of "show mlag config-sanity" that the unit tests of
\* VerifyMlagConfigSanity give it; a configuration is "{}" or holds inconsistencies.
Data_VerifyMlagConfigSanity ==
    { [hasMlagActive |-> FALSE],
      [hasMlagActive |-> TRUE, mlagActive |-> FALSE] }
    \cup { [hasMlagActive |-> TRUE, mlagActive |-> TRUE,
            globalConfiguration |-> g, interfaceConfiguration |-> i] :
             g \in {"{}", "inconsistent"}, i \in {"{}", "inconsistent"} }

\* VerifyMlagConfigSanity.test, as its unit tests expect it to report.
VerifyMlagConfigSanity(d) ==
    IF ~d.hasMlagActive
    THEN Return(<<Call("is_error", <<"Incorrect JSON response - 'mlagActive' state was not found">>)>>)
    ELSE IF d.mlagActive = FALSE
    THEN Return(<<Call("is_skipped", <<"MLAG is disabled">>)>>)
    ELSE IF d.globalConfiguration = "{}" /\ d.interfaceConfiguration = "{}"
    THEN Return(<<Call("is_success", NoMsg)>>)
    ELSE Return(<<Call("is_failure", <<"MLAG config-sanity returned inconsistencies",
                                       d.globalConfiguration, d.interfaceConfiguration>>)>>)

\* ------------------------------------------------------------------ collection

\* The test machine at rest (the device machine leaves it alone).
TestAtRest ==
    /\ tname = None
    /\ tdata = [k |-> None]
    /\ tfailed = FALSE
    /\ tpc = "rest"
    /\ pending = <<>>
    /\ traise = FALSE
    /\ result = [result |-> "unset", messages |-> <<>>]
    /\ nFail = 0
    /\ nSucc = 0
    /\ ownError = FALSE
    /\ evals = 0
    /\ first = [result |-> "unset", messages |-> <<>>]

NoOutcome == [kind |-> None, index |-> 0, payload |-> None]

\* No refresh() made yet.
NoRefresh == [online |-> FALSE, kind |-> None, ended |-> None]

\* No function applied, nothing returned.
NoCall == [fn |-> None]
NoRet == [done |-> FALSE]

\* No refresh() running or made, no function applied on its own.
AuxAtRest ==
    /\ rpos = "idle"
    /\ refreshed = NoRefresh
    /\ refreshes = 0
    /\ call = NoCall
    /\ ret = NoRet

\* No AntaInventory constructed.
NoInventory ==
    [state |-> "none", exc |-> None, devices |-> <<>>, servers |-> 0,
     fieldType |-> None, username |-> None, password |-> None]
InvAtRest ==
    /\ idata = [given |-> FALSE]
    /\ inventory = NoInventory
    /\ ilast = [fn |-> None]
    /\ icalls = 0

Init ==
    /\ \E pw \in {None, "secret"}, tags \in TagInputs :
           device = AsyncEOSDeviceInit("10.0.0.1", 443, pw, tags)
    /\ command \in [Cmds -> {NewCommand(i) : i \in Idents}]
    /\ task = [c \in Cmds |-> "idle"]
    /\ gather = [state |-> "idle", cmds |-> {}]
    /\ issued = [i \in Idents |-> 0]
    /\ answered = [cmd |-> 0, outcome |-> NoOutcome]
    /\ collects = 0
    /\ runs = 0
    /\ TestAtRest
    /\ AuxAtRest
    /\ InvAtRest

\* The requests for identity i among the batches the tasks of cs send.
Requests(cs, i) ==
    Cardinality({ c \in cs : RequestIdent(BuildRequest(device, command[c])) = i })

\* collect_commands(commands), line 131: asyncio.gather makes one collect() task per
\* command; each runs collect(), lines 245-264, up to its await on
\* self._session.cli(), which sends its batch.
CollectCommands(cs) ==
    /\ gather.state # "running"
    /\ \A c \in Cmds : task[c] # "awaiting"
    /\ runs < MaxRuns
    /\ collects + Cardinality(cs) <= MaxCollects
    /\ runs' = runs + 1
    /\ collects' = collects + Cardinality(cs)
    /\ gather' = [state |-> "running", cmds |-> cs]
    /\ task' = [c \in Cmds |-> IF c \in cs THEN "awaiting" ELSE "idle"]
    /\ issued' = [i \in Idents |-> Requests(cs, i)]
    /\ UNCHANGED <<device, command, answered, varsTest, varsAux, varsInv>>

\* collect(command), lines 265-283: the transport answers; the output is stored or
\* the exception handled.
CollectAnswer(c, o) ==
    /\ task[c] = "awaiting"
    /\ LET r == CollectOutcome(command[c], o)
       IN  /\ command' = [command EXCEPT ![c] = r.cmd]
           /\ task' = [task EXCEPT ![c] = IF r.raised THEN "raised" ELSE "done"]
    /\ answered' = [cmd |-> c, outcome |-> o]
    /\ device' = CollectDevice(device, o)
    /\ UNCHANGED <<gather, issued, collects, runs, varsTest, varsAux, varsInv>>

\* collect_commands(), line 131: the await on asyncio.gather ends.
CollectCommandsEnd ==
    /\ gather.state = "running"
    /\ \/ /\ GatherRaises(gather.cmds)
          /\ gather' = [gather EXCEPT !.state = "raised"]
       \/ /\ ~GatherRaises(gather.cmds)
          /\ GatherReady(gather.cmds)
          /\ gather' = [gather EXCEPT !.state = "returned"]
    /\ UNCHANGED <<device, command, task, issued, answered, collects, runs, varsTest, varsAux, varsInv>>

Next ==
    \/ \E cs \in SUBSET Cmds : CollectCommands(cs)
    \/ \E c \in Cmds, o \in Outcomes : CollectAnswer(c, o)
    \/ CollectCommandsEnd

Spec == Init /\ [][Next]_vars

\* ------------------------------------------------------------------ refresh

\* Hardware models "show version" reports under modelName.
ModelNames == {"DCS-7280SR3", "cEOSLab"}

\* Outcomes of self._session.cli(command="show version") in refresh().
RefreshOutcomes ==
    { [kind |-> "ok", hasModelName |-> TRUE, modelName |-> m] : m \in ModelNames }
    \cup { [kind |-> "ok", hasModelName |-> FALSE, modelName |-> None] }
    \cup { [kind |-> k, hasModelName |-> FALSE, modelName |-> None] :
             k \in {"EapiCommandError", "HTTPError", "ConnectError", "Exception"} }

\* bool(x) of an optional string.
Truthy(x) == x \notin {None, ""}

\* Line 314 computed from the hardware model alone.
EstablishedIgnoresProbe(dev) == Truthy(dev.hw_model)

\* Line 314: bool(self.is_online and self.hw_model).
EstablishedOf(dev) == dev.is_online /\ Truthy(dev.hw_model)

\* refresh(), lines 303-306: the except clause that catches an exception.
RefreshExceptClause(kind) ==
    CASE kind = "EapiCommandError" -> "EapiCommandError"
      [] kind \in {"HTTPError", "ConnectError"} -> "HTTPError"
      [] OTHER -> "uncaught"

\* refresh(), lines 300-314, after the probe found the device online and the
\* transport answered the command: the device, and whether refresh raised.
RefreshOnline(dev, o) ==
    IF o.kind = "ok"
    THEN LET d1 == IF o.hasModelName THEN [dev EXCEPT !.hw_model = o.modelName] ELSE dev
         IN  [dev |-> [d1 EXCEPT !.established = EstablishedOf(d1)], raised |-> FALSE]
    ELSE IF RefreshExceptClause(o.kind) = "uncaught"
         THEN [dev |-> dev, raised |-> TRUE]
         ELSE [dev |-> [dev EXCEPT !.established = EstablishedOf(dev)], raised |-> FALSE]

\* refresh(), lines 312-314, after the probe found the device unreachable.
RefreshOffline(dev) == [dev EXCEPT !.established = EstablishedOf(dev)]

InitRefresh ==
    /\ \E pw \in {None, "secret"}, tags \in TagInputs :
           device = AsyncEOSDeviceInit("10.0.0.1", 443, pw, tags)
    /\ command = [c \in Cmds |-> NewCommand(IdentOf(c))]
    /\ task = [c \in Cmds |-> "idle"]
    /\ gather = [state |-> "idle", cmds |-> {}]
    /\ issued = [i \in Idents |-> 0]
    /\ answered = [cmd |-> 0, outcome |-> NoOutcome]
    /\ collects = 0
    /\ runs = 0
    /\ TestAtRest
    /\ AuxAtRest
    /\ InvAtRest

\* refresh(), line 299: the probe self._session.check_connection() answers; a
\* device found online is sent "show version", an unreachable one ends the call.
RefreshProbe(online) ==
    /\ rpos = "idle"
    /\ refreshes < MaxRefresh
    /\ refreshes' = refreshes + 1
    /\ IF online
       THEN /\ device' = [device EXCEPT !.is_online = TRUE]
            /\ rpos' = "cli"
            /\ refreshed' = [online |-> TRUE, kind |-> None, ended |-> "running"]
       ELSE /\ device' = RefreshOffline([device EXCEPT !.is_online = FALSE])
            /\ rpos' = "idle"
            /\ refreshed' = [online |-> FALSE, kind |-> None, ended |-> "returned"]
    /\ UNCHANGED <<command, task, gather, issued, answered, collects, runs, varsTest, call, ret, varsInv>>

\* refresh(), lines 302-314: the transport answers "show version".
RefreshAnswer(o) ==
    /\ rpos = "cli"
    /\ rpos' = "idle"
    /\ LET r == RefreshOnline(device, o)
       IN  /\ device' = r.dev
           /\ refreshed' = [online |-> TRUE, kind |-> o.kind,
                            ended |-> IF r.raised THEN "raised" ELSE "returned"]
    /\ UNCHANGED <<command, task, gather, issued, answered, collects, runs, varsTest, refreshes, call, ret, varsInv>>

\* One collect(command) call on the device, from its request to its end.
CollectOne(c, o) ==
    /\ collects < MaxCollects
    /\ collects' = collects + 1
    /\ command' = [command EXCEPT ![c] = CollectOutcome(command[c], o).cmd]
    /\ device' = CollectDevice(device, o)
    /\ answered' = [cmd |-> c, outcome |-> o]
    /\ UNCHANGED <<task, gather, issued, runs, varsTest, varsAux, varsInv>>

NextRefresh ==
    \/ \E online \in BOOLEAN : RefreshProbe(online)
    \/ \E o \in RefreshOutcomes : RefreshAnswer(o)
    \/ \E c \in Cmds, o \in TestOutcomes : CollectOne(c, o)

SpecRefresh == InitRefresh /\ [][NextRefresh]_vars

\* ------------------------------------------------------------------ claims on collection

\* C1: AsyncEOSDevice.collect(command) never raises to its caller: whatever the
\* transport's outcome, the task ends normally; a failed outcome is recorded in
\* command.failed and leaves command.output as it was (unset on a command not yet
\* collected); a successful one stores the command's entry of the response in
\* command.output.
C1_Step ==
    \A c \in Cmds :
        (task[c] = "awaiting" /\ task'[c] # "awaiting") =>
            /\ task'[c] = "done"
            /\ answered'.cmd = c
            /\ IF answered'.outcome.kind = "ok"
               THEN /\ command'[c].output = answered'.outcome.payload
                    /\ command'[c].output # None
               ELSE /\ command'[c].failed = ExcOf(answered'.outcome)
                    /\ command'[c].failed # None
                    /\ command'[c].output = command[c].output

C1_CollectNeverRaises == [][C1_Step]_vars

\* C1 witness: a collect() ended normally on an exception only the broad clause
\* catches, with the cause in failed and no output.
C1_Witness ==
    \E c \in Cmds :
        /\ task[c] = "done"
        /\ answered = [cmd |-> c, outcome |-> [kind |-> "Exception", index |-> 0, payload |-> None]]
        /\ command[c].failed = "Exception"
        /\ command[c].output = None

\* C2 (as claimed): once collect() calls have completed on a Command, exactly one of
\* output and failed is set on it.
C2_ExactlyOneSet ==
    \A c \in Cmds :
        task[c] = "done" => ((command[c].output # None) # (command[c].failed # None))

\* C3 (as claimed): two Commands of identical identity handed to the device in one
\* collect_commands() cause one request for that identity, and hold the same output.
C3_IssuedOnce ==
    gather.state = "returned" =>
        \A c1 \in gather.cmds, c2 \in gather.cmds :
            (c1 # c2 /\ command[c1].ident = command[c2].ident) =>
                /\ issued[command[c1].ident] = 1
                /\ command[c1].output = command[c2].output

\* C4: collect_commands() never ends on an exception, and when it returns every
\* command of the list has been through its collect(): its task has finished and
\* its output or its failure is set.
C4_AllSettledOnReturn ==
    /\ gather.state # "raised"
    /\ gather.state = "returned" =>
           \A c \in gather.cmds :
               /\ task[c] = "done"
               /\ (command[c].output # None \/ command[c].failed # None)

\* C4 witness: collect_commands() returned with one command failed and its sibling
\* collected.
C4_Witness ==
    /\ gather.state = "returned"
    /\ \E c1 \in gather.cmds, c2 \in gather.cmds :
           /\ c1 # c2
           /\ command[c1].failed # None /\ command[c1].output = None
           /\ command[c2].output # None /\ command[c2].failed = None

\* ------------------------------------------------------------------ test lifecycle

Tests ==
    { "verify_routing_protocol_model", "verify_routing_table_size", "verify_bfd",
      "VerifyAPIHttpStatus",
      "VerifyBGPIPv4UnicastState", "VerifyBGPIPv4UnicastCount", "VerifyBGPEVPNCount", "VerifyBGPRTCCount",
      "VerifySSHIPv4Acl", "VerifyAPIHttpsSSL", "VerifyAPISSLCertificate", "VerifyIPv4ACL",
      "VerifyMlagConfigSanity" }

\* The function tests of routing/generic.py send their request themselves
\* (device.session.runCmds); the AntaTest classes evaluate collected commands.
FunctionTests == { "verify_routing_protocol_model", "verify_routing_table_size", "verify_bfd" }

\* The tests behind check_bgp_family_enable.
GatedTests ==
    { "VerifyBGPIPv4UnicastState", "VerifyBGPIPv4UnicastCount", "VerifyBGPEVPNCount", "VerifyBGPRTCCount" }

\* Inputs and structured outputs a test is run with.
DataOf(t) ==
    CASE t = "verify_routing_protocol_model" -> Data_verify_routing_protocol_model
      [] t = "verify_bfd" -> Data_verify_bfd
      [] t = "verify_routing_table_size" -> Data_verify_routing_table_size
      [] t = "VerifyAPIHttpStatus" -> Data_VerifyAPIHttpStatus
      [] t = "VerifyBGPIPv4UnicastState" -> Data_VerifyBGPIPv4UnicastState
      [] t = "VerifyBGPIPv4UnicastCount" -> Data_VerifyBGPIPv4UnicastCount
      [] t = "VerifyBGPEVPNCount" -> Data_PeerCount
      [] t = "VerifyBGPRTCCount" -> Data_PeerCount
      [] t = "VerifySSHIPv4Acl" -> Data_VerifySSHIPv4Acl
      [] t = "VerifyAPIHttpsSSL" -> Data_VerifyAPIHttpsSSL
      [] t = "VerifyAPISSLCertificate" -> Data_VerifyAPISSLCertificate
      [] t = "VerifyIPv4ACL" -> Data_VerifyIPv4ACL
      [] t = "VerifyMlagConfigSanity" -> Data_VerifyMlagConfigSanity

\* The evaluation function of test t on data d.
Body(t, d) ==
    CASE t = "verify_routing_protocol_model" -> verify_routing_protocol_model(d)
      [] t = "verify_bfd" -> verify_bfd(d)
      [] t = "verify_routing_table_size" -> verify_routing_table_size(d)
      [] t = "VerifyAPIHttpStatus" -> VerifyAPIHttpStatus(d)
      [] t = "VerifyBGPIPv4UnicastState" -> VerifyBGPIPv4UnicastState(d)
      [] t = "VerifyBGPIPv4UnicastCount" -> VerifyBGPIPv4UnicastCount(d)
      [] t = "VerifyBGPEVPNCount" -> VerifyBGPEVPNCount(d)
      [] t = "VerifyBGPRTCCount" -> VerifyBGPRTCCount(d)
      [] t = "VerifySSHIPv4Acl" -> VerifySSHIPv4Acl(d)
      [] t = "VerifyAPIHttpsSSL" -> VerifyAPIHttpsSSL(d)
      [] t = "VerifyAPISSLCertificate" -> VerifyAPISSLCertificate(d)
      [] t = "VerifyIPv4ACL" -> VerifyIPv4ACL(d)
      [] t = "VerifyMlagConfigSanity" -> VerifyMlagConfigSanity(d)

\* A wrapper that runs the evaluation function whatever the result already is.
AlreadyEvaluatedNever(res) == FALSE

\* The wrapper leaves a result that is already set alone.
AlreadyEvaluated(res) == res.result # "unset"

InitTest ==
    /\ device = AsyncEOSDeviceInit("10.0.0.1", 443, None, <<None>>)
    /\ command = [c \in Cmds |-> NewCommand(IdentOf(c))]
    /\ task = [c \in Cmds |-> "idle"]
    /\ gather = [state |-> "idle", cmds |-> {}]
    /\ issued = [i \in Idents |-> 0]
    /\ answered = [cmd |-> 0, outcome |-> NoOutcome]
    /\ collects = 0
    /\ runs = 0
    /\ tname \in Tests
    /\ tdata \in DataOf(tname)
    /\ tfailed = FALSE
    /\ tpc = "gate"
    /\ pending = <<>>
    /\ traise = FALSE
    /\ result = Unset
    /\ nFail = 0
    /\ nSucc = 0
    /\ ownError = FALSE
    /\ evals = 0
    /\ first = Unset
    /\ AuxAtRest
    /\ InvAtRest

varsRun == <<device, task, gather, issued, answered, collects, runs, tname, tdata, varsAux, varsInv>>

\* The gate: a test whose address family is not enabled is skipped before
\* anything is collected.
TestGate ==
    /\ tpc = "gate"
    /\ IF tname \in GatedTests /\ ~tdata.gate
       THEN /\ result' = IsSkipped(result, <<"no BGP peers for this address family">>)
            /\ tpc' = "done"
            /\ first' = result'
       ELSE /\ tpc' = "collect"
            /\ UNCHANGED <<result, first>>
    /\ UNCHANGED <<varsRun, command, tfailed, pending, traise, nFail, nSucc, ownError, evals>>

\* Collection of the test's commands: collect() run on each of them.
TestCollect ==
    /\ tpc = "collect"
    /\ tpc' = "collected"
    /\ IF tname \in FunctionTests
       THEN UNCHANGED <<command, tfailed>>
       ELSE \E o \in [Cmds -> TestOutcomes] :
               /\ command' = [c \in Cmds |-> CollectOutcome(command[c], o[c]).cmd]
               /\ tfailed' = (\E c \in Cmds : command'[c].failed # None)
    /\ UNCHANGED <<varsRun, pending, traise, result, nFail, nSucc, ownError, evals, first>>

\* The wrapper entered: a result already set is returned as it is; a failed
\* command makes the result error; otherwise the evaluation function runs.
EvaluateBegin ==
    /\ tpc = "collected"
    /\ IF AlreadyEvaluated(result)
       THEN /\ tpc' = "done"
            /\ evals' = evals + 1
            /\ UNCHANGED <<tfailed, pending, traise, result, first>>
       ELSE IF tfailed
       THEN /\ tpc' = "done"
            /\ evals' = evals + 1
            /\ result' = IsError(result, <<"a command of the test has failed">>)
            /\ first' = IF evals = 0 THEN result' ELSE first
            /\ UNCHANGED <<tfailed, pending, traise>>
       ELSE LET b == Body(tname, tdata)
            IN  /\ tpc' = "evaluating"
                /\ pending' = b.calls
                /\ traise' = b.raise
                /\ tfailed' = b.rpc
                /\ UNCHANGED <<result, evals, first>>
    /\ UNCHANGED <<varsRun, command, nFail, nSucc, ownError>>

\* The evaluation function makes its next call on the result.
EvaluateStep ==
    /\ tpc = "evaluating"
    /\ pending # <<>>
    /\ result' = Apply(result, Head(pending))
    /\ pending' = Tail(pending)
    /\ nFail' = nFail + (IF Head(pending).op = "is_failure" THEN 1 ELSE 0)
    /\ nSucc' = nSucc + (IF Head(pending).op = "is_success" THEN 1 ELSE 0)
    /\ ownError' = (ownError \/ Head(pending).op = "is_error")
    /\ UNCHANGED <<varsRun, command, tfailed, tpc, traise, evals, first>>

\* The evaluation function returns, or raises and the wrapper reports the
\* exception as error.
EvaluateEnd ==
    /\ tpc = "evaluating"
    /\ pending = <<>>
    /\ tpc' = "done"
    /\ evals' = evals + 1
    /\ result' = IF traise THEN IsError(result, <<"exception raised by the evaluation">>) ELSE result
    /\ first' = IF evals = 0 THEN result' ELSE first
    /\ UNCHANGED <<varsRun, command, tfailed, pending, traise, nFail, nSucc, ownError>>

\* The test is evaluated again on the outputs already collected.
ReEvaluate ==
    /\ tpc = "done"
    /\ evals >= 1
    /\ evals < MaxEvals
    /\ tpc' = "collected"
    /\ UNCHANGED <<varsRun, command, tfailed, pending, traise, result, nFail, nSucc, ownError, evals, first>>

NextTest ==
    \/ TestGate
    \/ TestCollect
    \/ EvaluateBegin
    \/ EvaluateStep
    \/ EvaluateEnd
    \/ ReEvaluate

SpecTest == InitTest /\ [][NextTest]_vars

\* ------------------------------------------------------------------ claims on the test lifecycle

\* C5: a test one of whose required commands ended collection with a transport
\* or RPC failure (or whose own request raised) is reported as error, never as
\* failure or success.
C5_FailedCommandIsError ==
    (tpc = "done" /\ tfailed) => result.result = "error"

\* C5 happens: collection left ConnectError on a command of VerifySSHIPv4Acl and
\* the test ended in error.
C5_Witness ==
    /\ tpc = "done"
    /\ tname = "VerifySSHIPv4Acl"
    /\ \E c \in Cmds : command[c].failed = "ConnectError" /\ command[c].output = None
    /\ result.result = "error"

C7_OneMessagePerFailure ==
    (tpc = "done" /\ nFail >= 1 /\ ~traise) =>
        /\ result.result = "failure"
        /\ Len(result.messages) = nFail

\* C8 as stated: a completed test is never unset; a normal return of the
\* evaluation function has set success, failure or skipped, and an exceptional
\* path (a raise, a failed command) yields error.
C8_NormalReturnVerdict ==
    tpc = "done" =>
        /\ result.result \in {"skipped", "success", "failure", "error"}
        /\ (traise \/ tfailed) => result.result = "error"
        /\ ~(traise \/ tfailed) => result.result \in {"skipped", "success", "failure"}

\* C8 amended: as stated, except that VerifyMlagConfigSanity returns normally
\* with error when the answer has no mlagActive.
C8_NeverUnset ==
    tpc = "done" =>
        /\ result.result \in {"skipped", "success", "failure", "error"}
        /\ (traise \/ tfailed) => result.result = "error"
        /\ ~(traise \/ tfailed) =>
              \/ result.result \in {"skipped", "success", "failure"}
              \/ /\ tname = "VerifyMlagConfigSanity"
                 /\ ~tdata.hasMlagActive
                 /\ result.result = "error"

\* C8 happens: verify_bfd found no peer at all, returned normally and the
\* result is success.
C8_Witness ==
    /\ tpc = "done"
    /\ tname = "verify_bfd"
    /\ tdata.rpc = "ok"
    /\ tdata.wellformed
    /\ tdata.peers = <<>>
    /\ ~traise
    /\ result = [result |-> "success", messages |-> <<>>]

C10_ErrorOnlyFromWrapper ==
    /\ ~ownError
    /\ result.result = "error" => (traise \/ tfailed)

\* C10 amended: the same for every test but VerifyMlagConfigSanity, which
\* reports an answer without mlagActive as error with its own message;
\* VerifyAPIHttpsSSL reports a missing sslProfile key as failure.
C10_OwnErrorOnlyMlag ==
    /\ ownError => (tname = "VerifyMlagConfigSanity" /\ ~tdata.hasMlagActive)
    /\ (result.result = "error" /\ tname # "VerifyMlagConfigSanity") => (traise \/ tfailed)
    /\ (tpc = "done" /\ tname = "VerifyAPIHttpsSSL" /\ ~tfailed /\ HttpsSSLKeyError(tdata)) =>
           result.result = "failure"

\* C10 happens: the answer given to VerifyAPIHttpsSSL has no sslProfile and the
\* test ended in failure with its "not configured" message.
C10_Witness ==
    /\ tpc = "done"
    /\ tname = "VerifyAPIHttpsSSL"
    /\ ~tdata.hasSslProfile
    /\ ~ownError
    /\ result = [result |-> "failure",
                 messages |-> <<<<"eAPI HTTPS server SSL profile is not configured", "default">>>>]

\* ------------------------------------------------------------------ __eq__

\* Objects a device is compared with: AsyncEOSDevice instances that differ in
\* endpoint, name, tags, credentials and connectivity, and objects of other classes.
EqHosts == {"10.0.0.1", "localhost"}
EqPorts == {443, 8443}
EqDevices ==
    { [class |-> "AsyncEOSDevice", attrs |-> AsyncEOSDeviceInit(h, p, None, <<None>>)] :
        h \in EqHosts, p \in EqPorts }
    \cup { [class |-> "AsyncEOSDevice",
            attrs |-> [AsyncEOSDeviceInit(h, p, "secret", <<"leaf">>) EXCEPT !.name = "leaf1"]] :
             h \in EqHosts, p \in EqPorts }
    \cup { [class |-> "AsyncEOSDevice",
            attrs |-> [AsyncEOSDeviceInit(h, p, None, <<None>>) EXCEPT
                          !.is_online = TRUE, !.established = TRUE, !.hw_model = "cEOSLab"]] :
             h \in EqHosts, p \in EqPorts }
EqOthers ==
    { [class |-> "AntaDevice", attrs |-> AsyncEOSDeviceInit("10.0.0.1", 443, None, <<None>>)],
      [class |-> "str", attrs |-> [host |-> "10.0.0.1", port |-> 443]] }
EqObjects == EqDevices \cup EqOthers

\* __eq__ comparing the hosts alone.
__eq__hostOnly(self, other) ==
    IF other.class # "AsyncEOSDevice" THEN FALSE
    ELSE self.attrs.host = other.attrs.host

\* AsyncEOSDevice.__eq__(self, other).
__eq__(self, other) ==
    IF other.class # "AsyncEOSDevice" THEN FALSE
    ELSE self.attrs.host = other.attrs.host /\ self.attrs.port = other.attrs.port

\* x == y in Python for an AsyncEOSDevice y: x.__eq__(y) when x is an
\* AsyncEOSDevice, else the reflected y.__eq__(x).
PyEq(x, y) == IF x.class = "AsyncEOSDevice" THEN __eq__(x, y) ELSE __eq__(y, x)

InitEq ==
    /\ device = AsyncEOSDeviceInit("10.0.0.1", 443, None, <<None>>)
    /\ command = [c \in Cmds |-> NewCommand(IdentOf(c))]
    /\ task = [c \in Cmds |-> "idle"]
    /\ gather = [state |-> "idle", cmds |-> {}]
    /\ issued = [i \in Idents |-> 0]
    /\ answered = [cmd |-> 0, outcome |-> NoOutcome]
    /\ collects = 0
    /\ runs = 0
    /\ TestAtRest
    /\ rpos = "idle"
    /\ refreshed = NoRefresh
    /\ refreshes = 0
    /\ \E a \in EqDevices, b \in EqObjects, c \in EqDevices :
           call = [fn |-> "__eq__", a |-> a, b |-> b, c |-> c]
    /\ ret = NoRet
    /\ InvAtRest

\* The comparisons a == a, a == b, b == a, b == c and a == c are made.
ApplyEq ==
    /\ call.fn = "__eq__"
    /\ ~ret.done
    /\ ret' = [done |-> TRUE,
               aa |-> __eq__(call.a, call.a),
               ab |-> __eq__(call.a, call.b),
               ba |-> PyEq(call.b, call.a),
               bc |-> PyEq(call.b, call.c),
               ac |-> __eq__(call.a, call.c)]
    /\ UNCHANGED <<varsDev, varsTest, rpos, refreshed, refreshes, call, varsInv>>

NextEq == ApplyEq

SpecEq == InitEq /\ [][NextEq]_vars

\* ------------------------------------------------------------------ claims on refresh and device state

\* The last refresh() has returned (and none is running).
RefreshReturned == rpos = "idle" /\ refreshed.ended = "returned"

\* C11: after every refresh() that returns, established = (is_online and
\* hw_model is known), is_online is what the probe of that refresh found, and
\* "show version" is sent only when the probe succeeded.
C11_EstablishedAfterRefresh ==
    /\ RefreshReturned =>
          /\ device.is_online = refreshed.online
          /\ device.established = (device.is_online /\ device.hw_model # None)
    /\ (rpos = "cli" \/ refreshed.kind # None) => refreshed.online

\* C11 happens: a second refresh() found the device unreachable while hw_model
\* is known from the first one, and established is False.
C11_Witness ==
    /\ RefreshReturned
    /\ refreshes = 2
    /\ ~refreshed.online
    /\ device.hw_model = "cEOSLab"
    /\ ~device.is_online
    /\ ~device.established

\* C12: refresh() never raises, whatever the probe and "show version" answer.
C12_RefreshNeverRaises ==
    refreshed.ended # "raised"

\* C13: whenever refresh() finds the device unreachable, on return is_online
\* and established are False and hw_model is None, whatever refresh() calls
\* came before.
C13_UnreachableClearsAll ==
    (RefreshReturned /\ ~refreshed.online) =>
        /\ device.is_online = FALSE
        /\ device.established = FALSE
        /\ device.hw_model = None

\* C14: after a refresh() that returned, established is True only if "show
\* version" succeeded in that refresh.
C14_EstablishedOnlyOnSuccess ==
    (RefreshReturned /\ device.established) => (refreshed.online /\ refreshed.kind = "ok")

\* C15: a step of collect() or collect_commands() leaves name, tags,
\* is_online, established and hw_model of the device as they were.
C15_Step ==
    (collects' # collects \/ task' # task \/ gather' # gather \/ command' # command) =>
        /\ device'.name = device.name
        /\ device'.tags = device.tags
        /\ device'.is_online = device.is_online
        /\ device'.established = device.established
        /\ device'.hw_model = device.hw_model
C15_CollectLeavesDevice == [][C15_Step]_vars

\* C15 happens: a collect() ended on ConnectError after a refresh() had found
\* the device online and established, and the device still is.
C15_Witness ==
    /\ \E c \in Cmds : answered = [cmd |-> c, outcome |-> [kind |-> "ConnectError", index |-> 0, payload |-> None]]
                       /\ command[c].failed = "ConnectError"
    /\ RefreshReturned
    /\ device.is_online
    /\ device.established
    /\ device.hw_model = "DCS-7280SR3"

\* C16: when only the leading 'enable' step of the batch fails, the user's
\* command is not marked failed with the error of the enable step.
C16_EnableFailureNotSurfaced ==
    \A c \in Cmds : command[c].failed # "EapiCommandError(enable)"

\* C17: a == b for two AsyncEOSDevice exactly when host and port are the same,
\* whatever their name, tags, credentials and connectivity; a device equals no
\* object of another class; the relation is reflexive, symmetric and transitive.
C17_EqualityByEndpoint ==
    ret.done =>
        /\ ret.ab = /\ call.b.class = "AsyncEOSDevice"
                    /\ call.a.attrs.host = call.b.attrs.host
                    /\ call.a.attrs.port = call.b.attrs.port
        /\ call.b.class # "AsyncEOSDevice" => (~ret.ab /\ ~ret.ba)
        /\ ret.aa
        /\ ret.ab = ret.ba
        /\ (ret.ab /\ ret.bc) => ret.ac

\* C17 happens: two devices of the same host and port that differ in name,
\* tags, enable password and connectivity were compared and are equal.
C17_Witness ==
    /\ ret.done
    /\ ret.ab
    /\ call.a.attrs.host = "localhost"
    /\ call.b.attrs.host = "localhost"
    /\ call.a.attrs.port = 8443
    /\ call.b.attrs.port = 8443
    /\ call.a.attrs.name = "leaf1"
    /\ call.a.attrs.enable_password = "secret"
    /\ call.a.attrs.tags = <<"leaf", "all">>
    /\ call.b.attrs.is_online
    /\ call.b.attrs.established
    /\ call.b.attrs.tags = <<"all">>

\* C18: in every reachable state the tags of the device contain 'all', once:
\* after construction with tags omitted, empty, without 'all' or with 'all',
\* and after every refresh and collect.
C18_DefaultTag ==
    /\ DEFAULT_TAG \in Range(device.tags)
    /\ Cardinality({ i \in DOMAIN device.tags : device.tags[i] = DEFAULT_TAG }) = 1

\* C18 happens: a device built with tags holds <<"leaf", "all">> after a
\* refresh that returned and a collect.
C18_Witness ==
    /\ device.tags = <<"leaf", "all">>
    /\ RefreshReturned
    /\ refreshes >= 1
    /\ collects >= 1

\* ------------------------------------------------------------------ claims on the BGP tests

\* A peer entry with an established session and empty message queues.
HealthyPeer(e) == e.peerState = "Established" /\ e.inMsgQueue = 0 /\ e.outMsgQueue = 0

\* The peers of VRF v of the output vrfs that are not healthy.
Offending(vrfs, v) == { p \in DOMAIN vrfs[v].peers : ~HealthyPeer(vrfs[v].peers[p]) }

RECURSIVE ViolationsIn(_)
ViolationsIn(cmds) ==
    IF cmds = <<>> THEN 0
    ELSE LET c == Head(cmds)
         IN  (IF c.vrf \notin DOMAIN c.vrfs THEN 1
              ELSE (IF Cardinality(DOMAIN c.vrfs[c.vrf].peers) # c.count THEN 1 ELSE 0)
                   + (IF Offending(c.vrfs, c.vrf) # {} THEN 1 ELSE 0))
             + ViolationsIn(Tail(cmds))

\* C20: VerifyBGPIPv4UnicastCount reports every independent violation found
\* across all the VRFs given as input, each as a failure message of its own.
C20_AccumulatesEveryViolation ==
    (/\ tpc = "done"
     /\ tname = "VerifyBGPIPv4UnicastCount"
     /\ tdata.gate
     /\ ~tfailed
     /\ ~traise
     /\ \A k \in DOMAIN tdata.commands : tdata.commands[k].wellformed) =>
        Len(result.messages) = ViolationsIn(tdata.commands)

\* ------------------------------------------------------------------ get_failed_logs and copy on their own

\* expected_output and actual_output: dictionaries over these keys and values.
\* None as a value is the JSON null.
LogKeys == {"name", "email"}
LogValues == {"Alice", "Bob", None}
\* The keys of expected_output in the order of its items.
LogKeyOrders == { <<>>, <<"name">>, <<"email">>, <<"name", "email">>, <<"email", "name">> }

\* The arguments of copy().
CopyClasses == {"AntaDevice", "AsyncEOSDevice"}
CopySources == { <<>>, <<"a.log">>, <<"a.log", "b.log">> }
CopyDestinations == {"/tmp", "flash:"}
CopyDirections == {"from", "to", "sideways"}
\* asyncssh.connect() and asyncssh.scp(): each returns or raises.
SshOutcomes == {"ok", "OSError"}

\* Lines 335-347: src and dst of the transfer, or the return on a direction
\* that is neither "from" nor "to". A path on the device is paired with the
\* connection, a local one with "local".
CopyPlan(conn, sources, destination, direction) ==
    IF direction = "from"
    THEN [src |-> [i \in DOMAIN sources |-> <<conn, sources[i]>>], dst |-> <<"local", destination>>]
    ELSE IF direction = "to"
    THEN [src |-> [i \in DOMAIN sources |-> <<"local", sources[i]>>], dst |-> <<conn, destination>>]
    ELSE [src |-> <<>>, dst |-> <<None, None>>]

\* AntaDevice.copy raises NotImplementedError. AsyncEOSDevice.copy: connect,
\* build src and dst, scp; an exception of connect or scp leaves copy().
\* scp holds the asyncssh.scp() calls made.
CopyOf(c, connect, scp) ==
    IF c.class = "AntaDevice" THEN [done |-> TRUE, raised |-> "NotImplementedError", scp |-> <<>>]
    ELSE IF connect # "ok" THEN [done |-> TRUE, raised |-> connect, scp |-> <<>>]
    ELSE LET plan == CopyPlan("conn", c.sources, c.destination, c.direction)
         IN  IF plan.dst = <<None, None>> THEN [done |-> TRUE, raised |-> None, scp |-> <<>>]
             ELSE [done |-> TRUE, raised |-> (IF scp = "ok" THEN None ELSE scp), scp |-> <<plan>>]

InitCall ==
    /\ device = AsyncEOSDeviceInit("10.0.0.1", 443, None, <<None>>)
    /\ command = [c \in Cmds |-> NewCommand(IdentOf(c))]
    /\ task = [c \in Cmds |-> "idle"]
    /\ gather = [state |-> "idle", cmds |-> {}]
    /\ issued = [i \in Idents |-> 0]
    /\ answered = [cmd |-> 0, outcome |-> NoOutcome]
    /\ collects = 0
    /\ runs = 0
    /\ TestAtRest
    /\ rpos = "idle"
    /\ refreshed = NoRefresh
    /\ refreshes = 0
    /\ \/ \E keys \in LogKeyOrders, present \in SUBSET LogKeys :
              \E e \in [Range(keys) -> LogValues], a \in [present -> LogValues] :
                  call = [fn |-> "get_failed_logs", keys |-> keys, expected_output |-> e, actual_output |-> a]
       \/ \E cl \in CopyClasses, srcs \in CopySources, dst \in CopyDestinations, dir \in CopyDirections :
              call = [fn |-> "copy", class |-> cl, sources |-> srcs, destination |-> dst, direction |-> dir]
    /\ ret = NoRet
    /\ InvAtRest

\* get_failed_logs(expected_output, actual_output) is applied.
ApplyGetFailedLogs ==
    /\ call.fn = "get_failed_logs"
    /\ ~ret.done
    /\ ret' = [done |-> TRUE, value |-> get_failed_logs(call.keys, call.expected_output, call.actual_output)]
    /\ UNCHANGED <<varsDev, varsTest, rpos, refreshed, refreshes, call, varsInv>>

\* copy(sources, destination, direction) runs to its end.
Copy ==
    /\ call.fn = "copy"
    /\ ~ret.done
    /\ \E connect \in SshOutcomes, scp \in SshOutcomes : ret' = CopyOf(call, connect, scp)
    /\ UNCHANGED <<varsDev, varsTest, rpos, refreshed, refreshes, call, varsInv>>

NextCall == ApplyGetFailedLogs \/ Copy

SpecCall == InitCall /\ [][NextCall]_vars

\* ------------------------------------------------------------------ claims on get_failed_logs and copy

\* The actual value of key k differs from the expected one: k is absent from
\* actual, or present with another value.
LogDiffers(expected, actual, k) == k \notin DOMAIN actual \/ actual[k] # expected[k]

\* The line for a differing key k.
LogLine(expected, actual, k) ==
    IF k \notin DOMAIN actual
    THEN <<"Expected, but it was not found in the actual output", expected[k], k>>
    ELSE <<"Expected, but found instead", expected[k], k, actual[k]>>

\* C21: get_failed_logs returns the empty string iff no key of expected
\* differs in actual; otherwise one line per differing key, in expected's key
\* order, worded "not found in the actual output" for a key absent from
\* actual and "found ... instead" for a key present with another value.
C21_FailedLogs ==
    (call.fn = "get_failed_logs" /\ ret.done) =>
        LET expected == call.expected_output
            actual == call.actual_output
            differing == SelectSeq(call.keys, LAMBDA k : LogDiffers(expected, actual, k))
        IN  /\ (ret.value = <<>>) <=> (differing = <<>>)
            /\ ret.value = [i \in DOMAIN differing |-> LogLine(expected, actual, differing[i])]

\* C22: copy() is never a silent no-op: AntaDevice.copy raises
\* NotImplementedError, and every AsyncEOSDevice.copy that returns normally
\* has made the transfer, whatever the direction.
C22_CopyNeverSilent ==
    (call.fn = "copy" /\ ret.done) =>
        /\ call.class = "AntaDevice" => ret.raised = "NotImplementedError"
        /\ ret.raised = None => Len(ret.scp) = 1

\* ------------------------------------------------------------------ inventory/__init__.py

\* Addresses are AddrBits wide: 0 .. max_int, as netaddr's and ipaddress's
\* 32-bit (or 128-bit) values are 0 .. 2^32 - 1.
max_int == 2^AddrBits - 1
Addrs == 0 .. max_int

\* An address as a str, as an ipaddress.IPv4Address (what pydantic's
\* IPvAnyAddress holds) and as a netaddr.IPAddress. Values of different types
\* are never equal.
Text(n) == [type |-> "str", value |-> n]
IPv4Address(n) == [type |-> "IPv4Address", value |-> n]
IPAddress(n) == [type |-> "IPAddress", value |-> n]
\* str(x): the text of an address, the same for the three types.
str(x) == Text(x.value)

INVENTORY_ROOT_KEY == "anta_inventory"

\* device.session is None.
NoSession == [url |-> <<>>, id |-> 0]
\* Server(url): the id tells the Server objects made from one another.
Server(url, id) == [url |-> url, id |-> id]

\* _session_build_path: EAPI_SESSION_TPL rendered.
_session_build_path(host, username, password) ==
    <<"https://", username, ":", password, "@", str(host).value, "/command-api">>

\* The type the host field of InventoryDevice holds: the address object the
\* class docstring shows, or its text.
HostFieldTypes == {"IPv4Address", "str"}

\* InventoryDevice(host, username, password, url): no session, not established.
InventoryDevice(fieldType, host, username, password, url) ==
    [host |-> [type |-> fieldType, value |-> host.value], username |-> username, password |-> password,
     url |-> url, session |-> NoSession, established |-> FALSE]

\* A host of the inventory schema with a netmask is refused.
ValidHostAny(h) == TRUE

\* A host of the inventory schema: an address, without netmask.
ValidHost(h) == ~h.netmask

\* AntaInventoryInput(**data[INVENTORY_ROOT_KEY]) raises ValidationError or not.
ValidInput(content) == \A i \in DOMAIN content.hosts : ValidHost(content.hosts[i])

\* _inventory_add_device.
_inventory_add_device(inv, host_ip) ==
    [inv EXCEPT !.devices =
        Append(@, InventoryDevice(inv.fieldType, host_ip, inv.username, inv.password,
                                  _session_build_path(host_ip, inv.username, inv.password)))]

\* _inventory_read_hosts, from the given hosts on.
RECURSIVE _inventory_read_hosts(_, _)
_inventory_read_hosts(inv, hosts) ==
    IF hosts = <<>> THEN inv
    ELSE _inventory_read_hosts(_inventory_add_device(inv, IPv4Address(Head(hosts).value)), Tail(hosts))

\* for host_ip in IPNetwork(...): every address of the subnet, from the given one on.
RECURSIVE NetworkLoop(_, _, _)
NetworkLoop(inv, host_ip, last) ==
    IF host_ip > last THEN inv
    ELSE NetworkLoop(_inventory_add_device(inv, IPAddress(host_ip)), host_ip + 1, last)

\* _inventory_read_networks, from the given networks on.
RECURSIVE _inventory_read_networks(_, _)
_inventory_read_networks(inv, networks) ==
    IF networks = <<>> THEN inv
    ELSE LET network == Head(networks)
         IN  _inventory_read_networks(NetworkLoop(inv, network.first, network.first + network.size - 1),
                                      Tail(networks))

\* range_increment += 1 on a netaddr.IPAddress: IndexError beyond max_int.
IAdd(value, num) ==
    IF value + num <= max_int THEN [value |-> value + num, exc |-> None]
    ELSE [value |-> value, exc |-> "IndexError"]

\* Lines 266-268: while range_increment <= range_stop.
RECURSIVE RangeLoop(_, _, _)
RangeLoop(inv, range_increment, range_stop) ==
    IF range_increment <= range_stop
    THEN LET added == _inventory_add_device(inv, Text(range_increment))
             next == IAdd(range_increment, 1)
         IN  IF next.exc # None THEN [added EXCEPT !.state = "raised", !.exc = next.exc]
             ELSE RangeLoop(added, next.value, range_stop)
    ELSE inv

\* _inventory_read_ranges, from the given ranges on.
RECURSIVE _inventory_read_ranges(_, _)
_inventory_read_ranges(inv, ranges) ==
    IF ranges = <<>> \/ inv.state = "raised" THEN inv
    ELSE _inventory_read_ranges(RangeLoop(inv, Head(ranges).start, Head(ranges).end), Tail(ranges))

\* _is_ip_exist(ip): ip is compared as it is given with the texts of the hosts.
_is_ip_exist(inv, ip) == \E i \in DOMAIN inv.devices : ip = str(inv.devices[i].host)

\* The devices whose host has the text of host_ip, in inventory order.
Matching(inv, host_ip) ==
    SelectSeq([i \in DOMAIN inv.devices |-> i], LAMBDA i : str(inv.devices[i].host) = str(host_ip))

\* device_get(host_ip): found tells a device from None.
device_get(inv, host_ip) ==
    IF _is_ip_exist(inv, host_ip)
    THEN [found |-> TRUE, index |-> Matching(inv, host_ip)[1]]
    ELSE [found |-> FALSE, index |-> 0]

\* A session_create that connects whatever established says.
NeedsSessionAlways(dev) == TRUE

\* session_create connects a device that is not established.
NeedsSession(dev) == ~dev.established

\* A failed connection that leaves the Server object in device.session.
SessionOnFailureKept(connection) == connection

\* Line 174: device.session after a failed connection.
SessionOnFailure(connection) == NoSession

\* _session_create(device): a Server is made and 'show version' run on it; ok
\* tells whether runCmds returned.
_session_create(dev, id, ok) ==
    LET connection == Server(dev.url, id)
    IN  IF ok THEN [dev EXCEPT !.established = TRUE, !.session = connection]
        ELSE [dev EXCEPT !.session = SessionOnFailure(connection)]

\* session_create(host_ip): the inventory after it, what it returned or
\* raised, and whether a connection was attempted.
session_create(inv, host_ip, ok) ==
    LET found == Matching(inv, host_ip)
    IN  IF found = <<>>
        THEN [inv |-> inv, raised |-> "IndexError", returned |-> FALSE, probed |-> FALSE]
        ELSE LET i == found[1]
                 dev == inv.devices[i]
             IN  IF NeedsSession(dev) /\ _is_ip_exist(inv, host_ip)
                 THEN [inv |-> [inv EXCEPT !.devices[i] = _session_create(dev, inv.servers + 1, ok),
                                           !.servers = @ + 1],
                       raised |-> None, returned |-> TRUE, probed |-> TRUE]
                 ELSE [inv |-> inv, raised |-> None, returned |-> FALSE, probed |-> FALSE]

\* sessions_create: session_create(host_ip=device.host) for the devices from
\* the i-th on; up holds the addresses that answer.
RECURSIVE sessions_create(_, _, _)
sessions_create(inv, i, up) ==
    IF i > Len(inv.devices) THEN inv
    ELSE LET host_ip == inv.devices[i].host
         IN  sessions_create(session_create(inv, host_ip, host_ip.value \in up).inv, i + 1, up)

\* AntaInventory(inventory_file, username, password, auto_connect): data is
\* what yaml.load returned.
AntaInventory(args, up) ==
    LET new == [state |-> "built", exc |-> None, devices |-> <<>>, servers |-> 0,
                fieldType |-> args.fieldType, username |-> args.username, password |-> args.password]
        data == args.data
    IN  IF data.root # INVENTORY_ROOT_KEY
        THEN [new EXCEPT !.state = "raised", !.exc = "InventoryRootKeyErrors"]
        ELSE IF ~ValidInput(data)
        THEN [new EXCEPT !.state = "raised", !.exc = "InventoryIncorrectSchema"]
        ELSE LET h == IF "hosts" \in data.sections THEN _inventory_read_hosts(new, data.hosts) ELSE new
                 n == IF "networks" \in data.sections THEN _inventory_read_networks(h, data.networks) ELSE h
                 r == IF "ranges" \in data.sections THEN _inventory_read_ranges(n, data.ranges) ELSE n
             IN  IF r.state = "raised" THEN r
                 ELSE IF args.auto_connect THEN sessions_create(r, 1, up)
                 ELSE r

\* What yaml.load returns for an inventory file: the root key, the sections
\* declared under it and their entries. A host entry tells whether it is
\* written with a netmask; a network is its first address and its size.
Host(a) == [value |-> a, netmask |-> FALSE]
HostWithNetmask(a) == [value |-> a, netmask |-> TRUE]
Networks ==
    { n \in { [first |-> f, size |-> sz] : f \in Addrs, sz \in {1, 2} } : n.first % n.size = 0 }
Ranges == { [start |-> a, end |-> b] : a \in Addrs, b \in Addrs }
Data(root, sections, hosts, networks, ranges) ==
    [root |-> root, sections |-> sections, hosts |-> hosts, networks |-> networks, ranges |-> ranges]

HostsOnly ==
    { Data(INVENTORY_ROOT_KEY, {"hosts"}, h, <<>>, <<>>) :
        h \in { <<Host(0)>>, <<Host(0), Host(1)>>, <<Host(1), Host(1)>>,
                <<HostWithNetmask(0), Host(1)>>, <<Host(0), HostWithNetmask(1)>> } }
NetworksOnly == { Data(INVENTORY_ROOT_KEY, {"networks"}, <<>>, <<n>>, <<>>) : n \in Networks }
RangesOnly ==
    { Data(INVENTORY_ROOT_KEY, {"ranges"}, <<>>, <<>>, <<r>>) : r \in Ranges }
    \cup { Data(INVENTORY_ROOT_KEY, {"ranges"}, <<>>, <<>>, <<r, [start |-> 0, end |-> 0]>>) :
             r \in { [start |-> 1, end |-> 2], [start |-> 2, end |-> 1] } }
Mixed ==
    { Data(INVENTORY_ROOT_KEY, {}, <<>>, <<>>, <<>>),
      Data(INVENTORY_ROOT_KEY, {"hosts", "networks", "ranges"},
           <<Host(0)>>, <<[first |-> 2, size |-> 2]>>, <<[start |-> 1, end |-> 1]>>),
      Data(INVENTORY_ROOT_KEY, {"hosts", "ranges"}, <<HostWithNetmask(0)>>, <<>>, <<[start |-> 1, end |-> 2]>>) }
WrongRoot ==
    { Data("inventory", {"ranges"}, <<>>, <<>>, <<[start |-> 0, end |-> 1]>>),
      Data("inventory", {"hosts"}, <<HostWithNetmask(0)>>, <<>>, <<>>) }
LoadData == HostsOnly \cup NetworksOnly \cup RangesOnly \cup Mixed \cup WrongRoot

\* The addresses that answer while sessions_create runs.
ReachSets == { {}, {0}, Addrs }

\* The arguments of the constructor.
InventoryArgs(datas) ==
    { [given |-> TRUE, data |-> d, auto_connect |-> ac, fieldType |-> ft,
       username |-> "ansible", password |-> "secret"] :
        d \in datas, ac \in BOOLEAN, ft \in HostFieldTypes }

\* The host_ip device_get is called with: the text of an address or an address object.
GetHosts == { Text(a) : a \in Addrs } \cup { IPv4Address(0), IPAddress(0) }

InitLoad ==
    /\ device = AsyncEOSDeviceInit("10.0.0.1", 443, None, <<None>>)
    /\ command = [c \in Cmds |-> NewCommand(IdentOf(c))]
    /\ task = [c \in Cmds |-> "idle"]
    /\ gather = [state |-> "idle", cmds |-> {}]
    /\ issued = [i \in Idents |-> 0]
    /\ answered = [cmd |-> 0, outcome |-> NoOutcome]
    /\ collects = 0
    /\ runs = 0
    /\ TestAtRest
    /\ AuxAtRest
    /\ idata \in InventoryArgs(LoadData)
    /\ inventory = NoInventory
    /\ ilast = [fn |-> None]
    /\ icalls = 0

\* AntaInventory(...) is constructed.
InventoryNew ==
    /\ inventory.state = "none"
    /\ \E up \in ReachSets :
           /\ inventory' = AntaInventory(idata, up)
           /\ ilast' = [fn |-> "__init__", up |-> up]
    /\ UNCHANGED <<varsDev, varsTest, varsAux, idata, icalls>>

\* device_get(host_ip) is called.
DeviceGet(host_ip) ==
    /\ inventory.state = "built"
    /\ LET got == device_get(inventory, host_ip)
       IN  ilast' = [fn |-> "device_get", host_ip |-> host_ip, found |-> got.found, index |-> got.index]
    /\ UNCHANGED <<varsDev, varsTest, varsAux, idata, inventory, icalls>>

NextLoad ==
    \/ InventoryNew
    \/ \E host_ip \in GetHosts : DeviceGet(host_ip)

SpecLoad == InitLoad /\ [][NextLoad]_vars

\* ------------------------------------------------------------------ claims on loading an inventory

Upto(a, b) == [i \in 1 .. (b - a + 1) |-> a + i - 1]

\* The addresses the ranges declare, in order.
RECURSIVE DeclaredByRanges(_)
DeclaredByRanges(ranges) ==
    IF ranges = <<>> THEN <<>>
    ELSE Upto(Head(ranges).start, Head(ranges).end) \o DeclaredByRanges(Tail(ranges))

\* The addresses inside a declared host, network or range.
Declared(data) ==
    (IF "hosts" \in data.sections THEN { data.hosts[i].value : i \in DOMAIN data.hosts } ELSE {})
    \cup (IF "networks" \in data.sections
          THEN UNION { Range(Upto(data.networks[i].first, data.networks[i].first + data.networks[i].size - 1)) :
                         i \in DOMAIN data.networks }
          ELSE {})
    \cup (IF "ranges" \in data.sections THEN Range(DeclaredByRanges(data.ranges)) ELSE {})

\* C25: the loader ends for every declared range with one device per address
\* from start to end, ascending (none when start > end), and device_get finds
\* exactly the addresses inside a declared host, network or range.
C25_RangesLoaded ==
    /\ (/\ inventory.state # "none"
        /\ idata.data.root = INVENTORY_ROOT_KEY
        /\ idata.data.sections = {"ranges"}) =>
           /\ inventory.state = "built"
           /\ [i \in DOMAIN inventory.devices |-> inventory.devices[i].host.value]
                  = DeclaredByRanges(idata.data.ranges)
    /\ (ilast.fn = "device_get" /\ ilast.host_ip.type = "str") =>
           (ilast.found <=> ilast.host_ip.value \in Declared(idata.data))

\* ------------------------------------------------------------------ sessions of an inventory

\* The inventories sessions are made on.
SessionData ==
    { Data(INVENTORY_ROOT_KEY, {"hosts"}, <<Host(0), Host(1)>>, <<>>, <<>>),
      Data(INVENTORY_ROOT_KEY, {"hosts"}, <<Host(1), Host(1)>>, <<>>, <<>>),
      Data(INVENTORY_ROOT_KEY, {"networks"}, <<>>, <<[first |-> 0, size |-> 2]>>, <<>>),
      Data(INVENTORY_ROOT_KEY, {"ranges"}, <<>>, <<>>, <<[start |-> 1, end |-> 2]>>),
      Data("inventory", {"hosts"}, <<Host(0)>>, <<>>, <<>>) }

\* The host_ip session_create is called with.
ProbeHosts == { Text(0), Text(1), Text(max_int), IPv4Address(1) }

InitInv ==
    /\ device = AsyncEOSDeviceInit("10.0.0.1", 443, None, <<None>>)
    /\ command = [c \in Cmds |-> NewCommand(IdentOf(c))]
    /\ task = [c \in Cmds |-> "idle"]
    /\ gather = [state |-> "idle", cmds |-> {}]
    /\ issued = [i \in Idents |-> 0]
    /\ answered = [cmd |-> 0, outcome |-> NoOutcome]
    /\ collects = 0
    /\ runs = 0
    /\ TestAtRest
    /\ AuxAtRest
    /\ idata \in InventoryArgs(SessionData)
    /\ inventory = NoInventory
    /\ ilast = [fn |-> None]
    /\ icalls = 0

\* session_create(host_ip) is called; ok tells whether the device answers.
SessionCreate(host_ip, ok) ==
    /\ inventory.state = "built"
    /\ icalls < MaxCalls
    /\ LET r == session_create(inventory, host_ip, ok)
       IN  /\ inventory' = r.inv
           /\ ilast' = [fn |-> "session_create", host_ip |-> host_ip, ok |-> ok, raised |-> r.raised,
                        returned |-> r.returned, probed |-> r.probed, before |-> inventory.devices]
    /\ icalls' = icalls + 1
    /\ UNCHANGED <<varsDev, varsTest, varsAux, idata>>

\* sessions_create() is called; up holds the addresses that answer.
SessionsCreate(up) ==
    /\ inventory.state = "built"
    /\ icalls < MaxCalls
    /\ inventory' = sessions_create(inventory, 1, up)
    /\ ilast' = [fn |-> "sessions_create", up |-> up, before |-> inventory.devices]
    /\ icalls' = icalls + 1
    /\ UNCHANGED <<varsDev, varsTest, varsAux, idata>>

NextInv ==
    \/ InventoryNew
    \/ \E host_ip \in ProbeHosts, ok \in BOOLEAN : SessionCreate(host_ip, ok)
    \/ \E up \in ReachSets : SessionsCreate(up)

SpecInv == InitInv /\ [][NextInv]_vars

\* ------------------------------------------------------------------ claims on the sessions of an inventory

\* C23: session_create(host_ip) returns True exactly when it left the device
\* with a newly established session, and False when the device was already
\* established, when the connection failed or when the host is not in the
\* inventory.
C23_TrueIffNewSession ==
    (ilast.fn = "session_create") =>
        LET m == Matching(inventory, ilast.host_ip)
        IN  /\ ilast.raised = None
            /\ ilast.returned <=>
                   /\ m # <<>>
                   /\ ~ilast.before[m[1]].established
                   /\ inventory.devices[m[1]].established
                   /\ inventory.devices[m[1]].session # NoSession

\* C29: every device of the inventory is established iff its session is not None.
C29_EstablishedIffSession ==
    \A i \in DOMAIN inventory.devices :
        inventory.devices[i].established <=> inventory.devices[i].session # NoSession

\* C29 happens: sessions_create connected both devices; the first answered and
\* is established with its session, the second did not and has neither.
C29_Witness ==
    /\ ilast.fn = "sessions_create"
    /\ Len(inventory.devices) = 2
    /\ inventory.servers = 2
    /\ inventory.devices[1].established
    /\ inventory.devices[1].session = Server(inventory.devices[1].url, 1)
    /\ ~inventory.devices[2].established
    /\ inventory.devices[2].session = NoSession

\* A step leaves every established device as it is, a session_create on an
\* established device returns False without connecting, and no more Servers
\* are made than there are devices not yet established.
C30_Step ==
    /\ \A i \in DOMAIN inventory.devices :
           inventory.devices[i].established =>
               /\ i \in DOMAIN inventory'.devices
               /\ inventory'.devices[i] = inventory.devices[i]
    /\ (ilast'.fn = "session_create" /\ icalls' = icalls + 1) =>
           LET m == Matching(inventory, ilast'.host_ip)
           IN  (m # <<>> /\ inventory.devices[m[1]].established) =>
                   /\ ~ilast'.returned
                   /\ ~ilast'.probed
                   /\ inventory' = inventory
    /\ inventory.state = "built" =>
           inventory'.servers - inventory.servers
               <= Cardinality({ i \in DOMAIN inventory.devices : ~inventory.devices[i].established })

\* C30: established is monotonic: no session_create or sessions_create
\* connects an established device again, replaces its session or resets its
\* established flag; only devices not yet established are connected.
C30_EstablishedMonotonic == [][C30_Step]_vars

\* C30 happens: session_create was called for an established device that
\* would have answered; it returned False and the inventory is as before.
C30_Witness ==
    /\ ilast.fn = "session_create"
    /\ icalls = 2
    /\ ilast.ok
    /\ ilast.raised = None
    /\ LET m == Matching(inventory, ilast.host_ip)
       IN  /\ m # <<>>
           /\ ilast.before[m[1]].established
           /\ ilast.before[m[1]].session.id = 1
    /\ ~ilast.returned
    /\ ~ilast.probed
    /\ inventory.devices = ilast.before

\* ------------------------------------------------------------------ claims on the routing table, certificate and HTTP tests

\* C26: verify_routing_table_size is skipped only when minimum or maximum is
\* missing; with both given (0 included) and the route summary read, it is
\* success iff minimum <= total_routes <= maximum and failure otherwise.
C26_TableSizeVerdict ==
    (tpc = "done" /\ tname = "verify_routing_table_size") =>
        /\ result.result = "skipped" => (~tdata.minimum.given \/ ~tdata.maximum.given)
        /\ (/\ tdata.minimum.given /\ tdata.maximum.given
            /\ tdata.rpc = "ok" /\ tdata.wellformed) =>
               result.result =
                   IF tdata.minimum.value <= tdata.totalRoutes /\ tdata.totalRoutes <= tdata.maximum.value
                   THEN "success" ELSE "failure"

\* C27: VerifyAPISSLCertificate fails for every certificate whose whole days
\* left until notAfter, on the device clock, are not more than
\* expiry_threshold: expired, expiring today, or within the threshold, the
\* threshold itself included.
C27_ExpiryVerdict ==
    (/\ tpc = "done"
     /\ tname = "VerifyAPISSLCertificate"
     /\ ~tfailed
     /\ ~traise
     /\ tdata.hasUtcTime) =>
        \A i \in DOMAIN tdata.certificates :
            LET c == tdata.certificates[i]
            IN  (/\ c.data.configured
                 /\ c.data.hasNotAfter
                 /\ Days(c.data.notAfter, tdata.utcTime) <= c.input.expiry_threshold) =>
                    result.result = "failure"

\* C28: VerifyAPIHttpStatus is success exactly when httpServer.running is
\* false, whatever 'enabled' is, and failure otherwise.
C28_HttpStatusVerdict ==
    (/\ tpc = "done"
     /\ tname = "VerifyAPIHttpStatus"
     /\ ~tfailed
     /\ tdata.wellformed) =>
        result.result = IF ~tdata.httpServer.running THEN "success" ELSE "failure"

====
